---- MODULE Spec2Model ----
(***************************************************************************)
(* geodb (services/location): the build pipeline (build.rs), the database  *)
(* reader and the exact-lookup query (main.rs) and the HTTP query handler  *)
(* (server.rs).                                                            *)
(*                                                                         *)
(* Text is a sequence of character codes (ASCII, so a string's UTF-8 bytes *)
(* are its characters); a byte string is a sequence of 0..255.  A u32 is   *)
(* the Int with the same 32-bit pattern; a u64/usize of the file header is *)
(* kept as its 8 little-endian bytes, so that open_db's sums have the      *)
(* machine's 64-bit width.                                                 *)
(***************************************************************************)
EXTENDS Integers, Sequences, FiniteSets, TLC

(* ---------------- Option / Result ---------------- *)

None == <<>>
Some(x) == <<x>>
Ok(v) == [ok |-> TRUE, val |-> v, err |-> ""]
Err(e) == [ok |-> FALSE, val |-> <<>>, err |-> e]

(* ---------------- sequences ---------------- *)

\* s[a..b) with 0-based bounds, as a Rust slice &s[a..b]
Slice(s, a, b) == IF b <= a THEN <<>> ELSE SubSeq(s, a + 1, b)

RECURSIVE Concat(_)
Concat(ss) == IF ss = <<>> THEN <<>> ELSE Head(ss) \o Concat(Tail(ss))

Range(s) == {s[i] : i \in 1..Len(s)}

(* ---------------- str::trim, str::to_lowercase, norm_key ---------------- *)

\* char::is_whitespace on the ASCII range
is_whitespace(c) == c \in {9, 10, 11, 12, 13, 32}

RECURSIVE trim_start(_)
trim_start(s) ==
    IF s = <<>> THEN <<>>
    ELSE IF is_whitespace(Head(s)) THEN trim_start(Tail(s)) ELSE s

RECURSIVE trim_end(_)
trim_end(s) ==
    IF s = <<>> THEN <<>>
    ELSE IF is_whitespace(s[Len(s)]) THEN trim_end(SubSeq(s, 1, Len(s) - 1)) ELSE s

trim(s) == trim_end(trim_start(s))

\* char::to_lowercase on the ASCII range: 'A'..'Z' -> 'a'..'z'
lower_char(c) == IF c >= 65 /\ c <= 90 THEN c + 32 ELSE c

RECURSIVE to_lowercase(_)
to_lowercase(s) ==
    IF s = <<>> THEN <<>> ELSE <<lower_char(Head(s))>> \o to_lowercase(Tail(s))

\* build.rs norm_key: None for an empty-after-trim name
\* build.rs:96-102 without the to_lowercase of build.rs:101
norm_key_no_lowercase(s) == IF trim(s) = <<>> THEN None ELSE Some(trim(s))

\* build.rs:96-102 without the is_empty test of build.rs:98-100
norm_key_keep_empty(s) == Some(to_lowercase(trim(s)))

norm_key(s) ==
    LET t == trim(s)
    IN  IF t = <<>> THEN None ELSE Some(to_lowercase(t))

\* main.rs:175 / server.rs:103: key.trim().to_lowercase()
lookup_key_of(key) == to_lowercase(trim(key))

(* ---------------- str::parse::<u32>, str::parse::<f32> ---------------- *)

is_digit(c) == c >= 48 /\ c <= 57

RECURSIVE digits_value(_, _)
digits_value(s, acc) ==
    IF s = <<>> THEN acc ELSE digits_value(Tail(s), acc * 10 + (Head(s) - 48))

\* u32::from_str: an optional '+', then one or more decimal digits (the
\* model's texts have at most three digits, so the value is in range)
parse_u32(s) ==
    LET d == IF s # <<>> /\ Head(s) = 43 THEN Tail(s) ELSE s
    IN  IF d # <<>> /\ \A i \in 1..Len(d) : is_digit(d[i])
        THEN Ok(digits_value(d, 0))
        ELSE Err("invalid digit")

\* f32::from_str restricted to the texts of the model: a digit string
\* parses, a text with a letter in it does not
parse_f32_ok(s) == s # <<>> /\ \A i \in 1..Len(s) : is_digit(s[i])

(* ---------------- u32 ---------------- *)

\* A u32 is held as the Int with the same 32-bit pattern: v itself below
\* 2^31, v - 2^32 from 2^31 up.  U32Of(hi, lo) is the pattern of
\* hi * 2^16 + lo modulo 2^32, for any integers hi and lo.
U32Of(hi, lo) ==
    LET h0 == hi + (lo \div 65536)
        h == ((h0 + 32768) % 65536) - 32768
    IN  h * 65536 + (lo % 65536)

\* u32::wrapping_sub, u32::wrapping_add
wrapping_sub(a, b) == U32Of((a \div 65536) - (b \div 65536), (a % 65536) - (b % 65536))
wrapping_add(a, b) == U32Of((a \div 65536) + (b \div 65536), (a % 65536) + (b % 65536))

\* a < b as u32
u32_lt(a, b) == IF (a < 0) = (b < 0) THEN a < b ELSE b < 0

\* v >> 7 as u32
u32_shr7(v) == IF v >= 0 THEN v \div 128 ELSE (v \div 128) + 33554432

RECURSIVE Pow2(_)
Pow2(n) == IF n = 0 THEN 1 ELSE 2 * Pow2(n - 1)

\* (chunk as u32) << shift for a 7-bit chunk: the bits shifted past bit 31 are lost
u32_shl(chunk, shift) ==
    IF shift < 16 THEN U32Of(0, chunk * Pow2(shift))
    ELSE U32Of(chunk * Pow2(shift - 16), 0)

(* ---------------- little-endian integers ---------------- *)

\* WriteBytesExt::write_u32::<LittleEndian>
write_u32_le(v) ==
    << v % 256, (v \div 256) % 256, (v \div 65536) % 256, (v \div 16777216) % 256 >>

\* main.rs read_u32_le_at
read_u32_le_at(b, off) ==
    U32Of(b[off + 4] * 256 + b[off + 3], b[off + 2] * 256 + b[off + 1])

\* a u64 as its 8 little-endian bytes; U64(n) for a length n below 2^31
U64(n) == write_u32_le(n) \o <<0, 0, 0, 0>>

\* WriteBytesExt::write_u64::<LittleEndian> of a length
write_u64_le(v) == U64(v)

\* main.rs read_u64_le_at: the 8 bytes at off
read_u64_le_at(b, off) == Slice(b, off, off + 8)

\* a u64 that is below 2^31, and its value
U64Fits(x) == x[5] = 0 /\ x[6] = 0 /\ x[7] = 0 /\ x[8] = 0 /\ x[4] < 128
U64ToInt(x) == read_u32_le_at(x, 0)

RECURSIVE U64AddFrom(_, _, _, _)
U64AddFrom(a, b, i, carry) ==
    IF i > 8 THEN <<>>
    ELSE LET t == a[i] + b[i] + carry
         IN  <<t % 256>> \o U64AddFrom(a, b, i + 1, t \div 256)

\* usize + usize modulo 2^64
U64Add(a, b) == U64AddFrom(a, b, 1, 0)

RECURSIVE U64CmpFrom(_, _, _)
U64CmpFrom(a, b, i) ==
    IF i = 0 THEN 0
    ELSE IF a[i] < b[i] THEN -1
    ELSE IF a[i] > b[i] THEN 1
    ELSE U64CmpFrom(a, b, i - 1)

U64Gt(a, b) == U64CmpFrom(a, b, 8) = 1

(* ---------------- varint + delta codec ---------------- *)

RECURSIVE write_var_u32(_)

\* build.rs:518-524 with `v > 0x80` as the loop test of build.rs:519
write_var_u32_gt(v) ==
    IF v < 0 \/ v > 128 THEN <<(v % 128) + 128>> \o write_var_u32(u32_shr7(v))
    ELSE <<v>>

\* build.rs write_var_u32: the bytes pushed for v
write_var_u32(v) ==
    IF v < 0 \/ v >= 128 THEN <<(v % 128) + 128>> \o write_var_u32(u32_shr7(v))
    ELSE <<v>>

RECURSIVE read_var_from(_, _, _, _)

\* main.rs:341-346: byte b at index i has been or-ed into v
read_var_byte(buf, i, b, v, shift) ==
    IF b < 128 THEN Ok(<<v, i + 1>>) ELSE read_var_from(buf, i + 1, v, shift + 7)

\* main.rs:340-348: the loop of read_var_u32 from index i
read_var_from(buf, i, v, shift) ==
    IF i >= Len(buf) \/ i >= 5 THEN Err("bad varint")
    ELSE read_var_byte(buf, i, buf[i + 1],
                       wrapping_add(v, u32_shl(buf[i + 1] % 128, shift)), shift)

\* main.rs read_var_u32: Ok(<<value, bytes read>>) or Err
read_var_u32(buf) == read_var_from(buf, 0, 0, 0)

RECURSIVE encode_delta_from(_, _)
encode_delta_from(ids, prev) ==
    IF ids = <<>> THEN <<>>
    ELSE LET id == Head(ids)
         IN  write_var_u32(wrapping_sub(id, prev)) \o encode_delta_from(Tail(ids), id)

\* build.rs encode_delta_varints
encode_delta_varints(ids) == encode_delta_from(ids, 0)

RECURSIVE decode_delta_from(_, _, _)

\* main.rs:330-332: cur has been advanced by the delta read
decode_delta_push(bytes, i, cur) == <<cur>> \o decode_delta_from(bytes, i, cur)

\* main.rs:326-329: r is what read_var_u32 returned at index i
decode_delta_step(bytes, i, cur, r) ==
    IF ~r.ok THEN <<>>
    ELSE decode_delta_push(bytes, i + r.val[2], wrapping_add(cur, r.val[1]))

\* main.rs:325-333: the loop of decode_delta_varints from index i
decode_delta_from(bytes, i, cur) ==
    IF i >= Len(bytes) THEN <<>>
    ELSE decode_delta_step(bytes, i, cur, read_var_u32(Slice(bytes, i, Len(bytes))))

\* main.rs decode_delta_varints
decode_delta_varints(bytes) == decode_delta_from(bytes, 0, 0)

(* ---------------- ordering and sorting ---------------- *)

\* str::cmp: byte-wise lexicographic order
RECURSIVE str_lt(_, _)
str_lt(a, b) ==
    IF b = <<>> THEN FALSE
    ELSE IF a = <<>> THEN TRUE
    ELSE IF Head(a) < Head(b) THEN TRUE
    ELSE IF Head(a) > Head(b) THEN FALSE
    ELSE str_lt(Tail(a), Tail(b))

\* the keys of a set in ascending byte order
RECURSIVE sorted_keys(_)
sorted_keys(S) ==
    IF S = {} THEN <<>>
    ELSE LET m == CHOOSE x \in S : \A y \in S \ {x} : str_lt(x, y)
         IN  <<m>> \o sorted_keys(S \ {m})

\* insert x into the ascending list s after every element that is not greater
RECURSIVE insert_u32(_, _)
insert_u32(s, x) ==
    IF s = <<>> THEN <<x>>
    ELSE IF u32_lt(x, Head(s)) THEN <<x>> \o s
    ELSE <<Head(s)>> \o insert_u32(Tail(s), x)

\* slice::sort_unstable on u32
RECURSIVE sort_unstable(_)
sort_unstable(s) ==
    IF s = <<>> THEN <<>>
    ELSE insert_u32(sort_unstable(SubSeq(s, 1, Len(s) - 1)), s[Len(s)])

\* Vec::dedup: drop every element equal to its predecessor
RECURSIVE dedup(_)
dedup(s) ==
    IF Len(s) <= 1 THEN s
    ELSE IF s[1] = s[2] THEN dedup(Tail(s))
    ELSE <<s[1]>> \o dedup(Tail(s))

\* build.rs:179-183, one posting list of phase 6
\* the dedup of build.rs:177 on a list that build.rs:176 did not sort
sort_dedup_unsorted(ids) == IF Len(ids) > 1 THEN dedup(ids) ELSE ids

sort_dedup(ids) == IF Len(ids) > 1 THEN dedup(sort_unstable(ids)) ELSE ids

RECURSIVE insert_rec(_, _)
insert_rec(s, r) ==
    IF s = <<>> THEN <<r>>
    ELSE IF u32_lt(r.id, Head(s).id) THEN <<r>> \o s
    ELSE <<Head(s)>> \o insert_rec(Tail(s), r)

\* build.rs:440 recs.sort_by_key(|r| r.id): stable
RECURSIVE sort_by_id(_)
sort_by_id(s) ==
    IF s = <<>> THEN <<>>
    ELSE insert_rec(sort_by_id(SubSeq(s, 1, Len(s) - 1)), s[Len(s)])

(* ---------------- tabular line parsers ---------------- *)

\* A line is the sequence of its tab-separated columns (line.split('\t')).

\* build.rs parse_allcountries_line.  lat and lon are kept as the number
\* their digits spell.
\* build.rs:284 population_s.parse().unwrap_or(0)
unwrap_or_0(r) == IF r.ok THEN r.val ELSE 0

\* build.rs:280-302 with `population <= min_pop` as the test of build.rs:286
parse_allcountries_fields_le(line, min_pop, id, population) ==
    IF ~id.ok THEN Err("invalid id")
    ELSE IF ~parse_f32_ok(line[5]) THEN Err("invalid lat")
    ELSE IF ~parse_f32_ok(line[6]) THEN Err("invalid lon")
    ELSE IF population <= min_pop THEN Err("below min_pop")
    ELSE Ok([id |-> id.val,
             name |-> line[2],
             ascii_name |-> line[3],
             country |-> line[9],
             admin1 |-> line[11],
             admin2 |-> line[12],
             lat |-> digits_value(line[5], 0),
             lon |-> digits_value(line[6], 0),
             feat_class |-> IF line[7] = <<>> THEN 63 ELSE line[7][1],
             feat_code |-> line[8],
             population |-> population])

\* build.rs:280-302: the 15 columns are there; id is what id_s.parse() returned
parse_allcountries_fields(line, min_pop, id, population) ==
    IF ~id.ok THEN Err("invalid id")
    ELSE IF ~parse_f32_ok(line[5]) THEN Err("invalid lat")
    ELSE IF ~parse_f32_ok(line[6]) THEN Err("invalid lon")
    ELSE IF population < min_pop THEN Err("below min_pop")
    ELSE Ok([id |-> id.val,
             name |-> line[2],
             ascii_name |-> line[3],
             country |-> line[9],
             admin1 |-> line[11],
             admin2 |-> line[12],
             lat |-> digits_value(line[5], 0),
             lon |-> digits_value(line[6], 0),
             feat_class |-> IF line[7] = <<>> THEN 63 ELSE line[7][1],
             feat_code |-> line[8],
             population |-> population])

parse_allcountries_line(line, min_pop) ==
    IF Len(line) < 15 THEN Err("missing column")
    ELSE parse_allcountries_fields(line, min_pop, parse_u32(line[1]),
                                   unwrap_or_0(parse_u32(line[15])))

\* build.rs parse_alt_pair: None, or Some(<<key, geoname_id>>)
\* build.rs:383-394: g is what geoname_s.parse() returned, k is norm_key(alt_name)
\* build.rs:383-394 without the id_present test of build.rs:387
parse_alt_fields_any_id(id_present, g, k) ==
    IF ~g.ok THEN None
    ELSE IF k = None THEN None
    ELSE Some(<<k[1], g.val>>)

parse_alt_fields(id_present, g, k) ==
    IF ~g.ok THEN None
    ELSE IF g.val \notin id_present THEN None
    ELSE IF k = None THEN None
    ELSE Some(<<k[1], g.val>>)

parse_alt_pair(line, id_present) ==
    IF Len(line) < 4 THEN None
    ELSE parse_alt_fields(id_present, parse_u32(line[2]), norm_key(line[4]))

(* ---------------- key -> postings map ---------------- *)

\* key_to_ids.entry(k).or_default().push(id)
push_id(m, k, id) ==
    IF k \in DOMAIN m THEN [m EXCEPT ![k] = Append(@, id)]
    ELSE [x \in DOMAIN m \cup {k} |-> IF x = k THEN <<id>> ELSE m[x]]

\* build.rs:158-163, one record of phase 4
\* if let Some(k) = norm_key(..) { key_to_ids.entry(k).or_default().push(id) }
push_some(m, k, id) == IF k = None THEN m ELSE push_id(m, k[1], id)

\* build.rs:154-160 without the ascii_name push of build.rs:158-160
seed_record_name_only(m, r) == push_some(m, norm_key(r.name), r.id)

seed_record(m, r) ==
    push_some(push_some(m, norm_key(r.name), r.id), norm_key(r.ascii_name), r.id)

RECURSIVE seed_names(_, _)
seed_names(m, recs) ==
    IF recs = <<>> THEN m ELSE seed_names(seed_record(m, Head(recs)), Tail(recs))

EmptyMap == [x \in {} |-> <<>>]

(* ---------------- key index (fst crate) ---------------- *)

\* The fst crate is outside the repository.  Its map is modelled by what
\* the program relies on: MapBuilder takes keys in strictly ascending byte
\* order, Map::new validates the bytes, and Map::get returns the value
\* inserted under exactly that key.  The byte form is a count followed by
\* (key length, key bytes, varint value) entries.

RECURSIVE fst_entries(_)
fst_entries(pairs) ==
    IF pairs = <<>> THEN <<>>
    ELSE LET k == Head(pairs)[1]
             off == Head(pairs)[2]
         IN  <<Len(k)>> \o k \o write_var_u32(off) \o fst_entries(Tail(pairs))

\* MapBuilder::new, insert for every pair, finish
fst_build(pairs) ==
    IF \A i \in 1..(Len(pairs) - 1) : str_lt(pairs[i][1], pairs[i + 1][1])
    THEN Ok(<<Len(pairs)>> \o fst_entries(pairs))
    ELSE Err("fst: keys out of order")

RECURSIVE fst_parse_from(_, _, _)

fst_parse_cons(k, v, rest) ==
    IF ~rest.ok THEN rest ELSE Ok(<< <<k, v>> >> \o rest.val)

fst_parse_entry(bytes, i, n, klen, v) ==
    IF ~v.ok THEN Err("fst load")
    ELSE fst_parse_cons(Slice(bytes, i + 1, i + 1 + klen), v.val[1],
                        fst_parse_from(bytes, i + 1 + klen + v.val[2], n - 1))

fst_parse_from(bytes, i, n) ==
    IF n = 0 THEN (IF i = Len(bytes) THEN Ok(<<>>) ELSE Err("fst load"))
    ELSE IF i >= Len(bytes) \/ i + 1 + bytes[i + 1] > Len(bytes) THEN Err("fst load")
    ELSE fst_parse_entry(bytes, i, n, bytes[i + 1],
                         read_var_u32(Slice(bytes, i + 1 + bytes[i + 1], Len(bytes))))

\* fst::Map::new: Ok(the pairs of the map) or Err
fst_new(bytes) ==
    IF bytes = <<>> THEN Err("fst load") ELSE fst_parse_from(bytes, 1, bytes[1])

\* fst::Map::get: None, or Some(value)
fst_get(pairs, key) ==
    IF \E i \in 1..Len(pairs) : pairs[i][1] = key
    THEN Some(pairs[CHOOSE i \in 1..Len(pairs) : pairs[i][1] = key][2])
    ELSE None

(* ---------------- write_db ---------------- *)

MAGIC == <<71, 69, 79, 68, 66, 49, 0>>
VERSION == 2
HEADER_LEN == 43

\* a varint length, then the bytes
len_prefixed(b) == write_var_u32(Len(b)) \o b

\* build.rs write_lp_str
write_lp_str(str) == len_prefixed(str)

\* build.rs write_record; an f32 is written as the 4 bytes of its number
write_record(r) ==
    write_u32_le(r.id) \o write_u32_le(r.lat) \o write_u32_le(r.lon)
    \o write_u32_le(r.population) \o <<r.feat_class>>
    \o write_lp_str(r.name) \o write_lp_str(r.country) \o write_lp_str(r.admin1)
    \o write_lp_str(r.admin2) \o write_lp_str(r.feat_code)

\* build.rs:416-428: the posting entry of one key
posting_entry(ids) == len_prefixed(encode_delta_varints(ids))

\* build.rs:416-428: postings_blob after keys[1..n], and the offset of each
RECURSIVE postings_blob_of(_, _)
postings_blob_of(keys, m) ==
    IF keys = <<>> THEN <<>>
    ELSE posting_entry(m[Head(keys)]) \o postings_blob_of(Tail(keys), m)

RECURSIVE fst_pairs_of(_, _, _)
fst_pairs_of(keys, m, off) ==
    IF keys = <<>> THEN <<>>
    ELSE << <<Head(keys), off>> >>
         \o fst_pairs_of(Tail(keys), m, off + Len(posting_entry(m[Head(keys)])))

\* build.rs:447-453: records_blob and the offset of each record
RECURSIVE records_blob_of(_)
records_blob_of(recs) ==
    IF recs = <<>> THEN <<>> ELSE write_record(Head(recs)) \o records_blob_of(Tail(recs))

RECURSIVE rec_offs_of(_, _)
rec_offs_of(recs, off) ==
    IF recs = <<>> THEN <<>>
    ELSE <<off>> \o rec_offs_of(Tail(recs), off + Len(write_record(Head(recs))))

RECURSIVE u32s_le(_)
u32s_le(xs) == IF xs = <<>> THEN <<>> ELSE write_u32_le(Head(xs)) \o u32s_le(Tail(xs))

RECURSIVE u64s_le(_)
u64s_le(xs) == IF xs = <<>> THEN <<>> ELSE write_u64_le(Head(xs)) \o u64s_le(Tail(xs))

\* build.rs:456-463
offsets_blob_of(recs) ==
    write_u32_le(Len(recs))
    \o u32s_le([i \in 1..Len(recs) |-> recs[i].id])
    \o u64s_le(rec_offs_of(recs, 0))

\* build.rs write_db: Ok(the bytes of the file written) or Err
\* build.rs:465-478: the file, from its four sections
write_file(fst, postings_blob, records_blob, offsets_blob) ==
    IF ~fst.ok THEN fst
    ELSE Ok(MAGIC \o write_u32_le(VERSION)
            \o write_u64_le(Len(fst.val)) \o write_u64_le(Len(postings_blob))
            \o write_u64_le(Len(records_blob)) \o write_u64_le(Len(offsets_blob))
            \o fst.val \o postings_blob \o records_blob \o offsets_blob)

\* build.rs:403-463: keys are the sorted keys, recs the records sorted by id
write_sections(key_to_ids, keys, recs) ==
    write_file(fst_build(fst_pairs_of(keys, key_to_ids, 0)),
               postings_blob_of(keys, key_to_ids),
               records_blob_of(recs), offsets_blob_of(recs))

\* build.rs write_db: Ok(the bytes of the file written) or Err
write_db(key_to_ids, records) ==
    write_sections(key_to_ids, sorted_keys(DOMAIN key_to_ids), sort_by_id(records))

(* ---------------- open_db ---------------- *)

\* main.rs:148-162: the section starts have been summed
open_db_check(bytes, fst_len, postings_len, records_len, offsets_len, fst_start, postings_start, records_start, offsets_start) ==
    IF U64Gt(U64Add(offsets_start, offsets_len), U64(Len(bytes)))
    THEN Err("corrupt file lengths")
    ELSE Ok([fst_start |-> fst_start, fst_len |-> fst_len,
             postings_start |-> postings_start, records_start |-> records_start,
             offsets_start |-> offsets_start, postings_len |-> postings_len,
             records_len |-> records_len, offsets_len |-> offsets_len,
             bytes |-> bytes])

\* main.rs:142-146: the section starts are usize sums, computed modulo 2^64
open_db_starts(bytes, fst_len, postings_len, records_len, offsets_len) ==
    open_db_check(bytes, fst_len, postings_len, records_len, offsets_len,
                  U64(HEADER_LEN),
                  U64Add(U64(HEADER_LEN), fst_len),
                  U64Add(U64Add(U64(HEADER_LEN), fst_len), postings_len),
                  U64Add(U64Add(U64Add(U64(HEADER_LEN), fst_len), postings_len),
                         records_len))

\* main.rs:121-150 without the version test of main.rs:132-135
open_db_any_version(bytes) ==
    IF Len(bytes) < 7 THEN Err("failed to fill whole buffer")
    ELSE IF SubSeq(bytes, 1, 7) # MAGIC THEN Err("bad magic")
    ELSE IF Len(bytes) < HEADER_LEN THEN Err("failed to fill whole buffer")
    ELSE open_db_starts(bytes, read_u64_le_at(bytes, 11), read_u64_le_at(bytes, 19),
                        read_u64_le_at(bytes, 27), read_u64_le_at(bytes, 35))

\* main.rs open_db on the bytes of the file: Ok(Db) or Err
open_db(bytes) ==
    IF Len(bytes) < 7 THEN Err("failed to fill whole buffer")
    ELSE IF SubSeq(bytes, 1, 7) # MAGIC THEN Err("bad magic")
    ELSE IF Len(bytes) < 11 THEN Err("failed to fill whole buffer")
    ELSE IF read_u32_le_at(bytes, 7) # VERSION THEN Err("unsupported version")
    ELSE IF Len(bytes) < HEADER_LEN THEN Err("failed to fill whole buffer")
    ELSE open_db_starts(bytes, read_u64_le_at(bytes, 11), read_u64_le_at(bytes, 19),
                        read_u64_le_at(bytes, 27), read_u64_le_at(bytes, 35))

\* &bytes[start..start + len] is in bounds (otherwise the index panics)
slice_ok(bytes, start, len) ==
    /\ ~U64Gt(start, U64Add(start, len))
    /\ ~U64Gt(U64Add(start, len), U64(Len(bytes)))

db_slice(bytes, start, len) ==
    Slice(bytes, U64ToInt(start), U64ToInt(U64Add(start, len)))

\* a slice index out of range: the thread panics
Panic == [ok |-> FALSE, val |-> <<>>, err |-> "panic"]

\* a + b exceeds usize::MAX
add_overflows(a, b) == U64Gt(a, U64Add(a, b))

\* main.rs:143-148: one of the five usize sums exceeds usize::MAX
sums_overflow(fst_len, postings_len, records_len, offsets_len) ==
    \/ add_overflows(U64(HEADER_LEN), fst_len)
    \/ add_overflows(U64Add(U64(HEADER_LEN), fst_len), postings_len)
    \/ add_overflows(U64Add(U64Add(U64(HEADER_LEN), fst_len), postings_len), records_len)
    \/ add_overflows(U64Add(U64Add(U64Add(U64(HEADER_LEN), fst_len), postings_len),
                             records_len), offsets_len)

\* main.rs:121-141: the header is read whole, with the magic and the version
header_read(bytes) ==
    /\ Len(bytes) >= HEADER_LEN
    /\ SubSeq(bytes, 1, 7) = MAGIC
    /\ read_u32_le_at(bytes, 7) = VERSION

\* main.rs open_db built with overflow checks (the dev profile): a usize sum
\* that exceeds usize::MAX panics instead of wrapping
open_db_checked(bytes) ==
    IF header_read(bytes)
       /\ sums_overflow(read_u64_le_at(bytes, 11), read_u64_le_at(bytes, 19),
                        read_u64_le_at(bytes, 27), read_u64_le_at(bytes, 35))
    THEN Panic
    ELSE open_db(bytes)

\* what open_db returns: the sums wrap (release profile) or panic (dev
\* profile), whichever the binary was built with
open_db_outcomes(bytes) == { open_db(bytes), open_db_checked(bytes) }

\* main.rs Db::fst_slice, postings_slice, records_slice, offsets_slice: Ok(slice) or Panic
sliced(bytes, start, len) ==
    IF slice_ok(bytes, start, len) THEN Ok(db_slice(bytes, start, len)) ELSE Panic

fst_slice(db) == sliced(db.bytes, db.fst_start, db.fst_len)
postings_slice(db) == sliced(db.bytes, db.postings_start, db.postings_len)
records_slice(db) == sliced(db.bytes, db.records_start, db.records_len)
offsets_slice(db) == sliced(db.bytes, db.offsets_start, db.offsets_len)

(* ---------------- postings decode + record load ---------------- *)

\* main.rs:221-226: l is what read_var_u32(slice) returned
read_postings_len(slice, l) ==
    IF ~l.ok THEN l
    ELSE IF l.val[1] < 0 \/ l.val[2] + l.val[1] > Len(slice)
    THEN Err("postings length out of bounds")
    ELSE Ok(decode_delta_varints(Slice(slice, l.val[2], l.val[2] + l.val[1])))

\* main.rs:218-220
read_postings_at(slice) == read_postings_len(slice, read_var_u32(slice))

\* main.rs:214-218: blob is postings_slice()
read_postings_in(blob, postings_offset) ==
    IF ~blob.ok THEN blob
    ELSE IF postings_offset >= Len(blob.val) THEN Err("postings offset out of bounds")
    ELSE read_postings_at(Slice(blob.val, postings_offset, Len(blob.val)))

\* main.rs read_postings: Ok(ids) or Err
read_postings(db, postings_offset) == read_postings_in(postings_slice(db), postings_offset)

\* main.rs:306-314: l is what read_var_u32(&buf[pos..]) returned
read_lp_str_len(buf, pos, l) ==
    IF ~l.ok THEN l
    ELSE IF l.val[1] < 0 \/ pos + l.val[2] + l.val[1] > Len(buf)
    THEN Err("string out of bounds")
    ELSE IF \E i \in (pos + l.val[2] + 1)..(pos + l.val[2] + l.val[1]) : buf[i] >= 128
    THEN Err("invalid utf-8")
    ELSE Ok(<<Slice(buf, pos + l.val[2], pos + l.val[2] + l.val[1]),
              pos + l.val[2] + l.val[1]>>)

\* main.rs read_lp_str_cur at position pos of buf: Ok(<<string, new position>>) or Err
read_lp_str_cur(buf, pos) == read_lp_str_len(buf, pos, read_var_u32(Slice(buf, pos, Len(buf))))

\* main.rs:286-298
read_record_5(buf, name, country, admin1, admin2, feat_code) ==
    IF ~feat_code.ok THEN feat_code
    ELSE Ok(Some([id |-> read_u32_le_at(buf, 0),
                  name |-> name.val[1],
                  ascii_name |-> <<>>,
                  country |-> country.val[1],
                  admin1 |-> admin1.val[1],
                  admin2 |-> admin2.val[1],
                  lat |-> read_u32_le_at(buf, 4),
                  lon |-> read_u32_le_at(buf, 8),
                  feat_class |-> buf[17],
                  feat_code |-> feat_code.val[1],
                  population |-> read_u32_le_at(buf, 12)]))

\* main.rs:284
read_record_4(buf, name, country, admin1, admin2) ==
    IF ~admin2.ok THEN admin2
    ELSE read_record_5(buf, name, country, admin1, admin2,
                       read_lp_str_cur(buf, admin2.val[2]))

\* main.rs:283
read_record_3(buf, name, country, admin1) ==
    IF ~admin1.ok THEN admin1
    ELSE read_record_4(buf, name, country, admin1, read_lp_str_cur(buf, admin1.val[2]))

\* main.rs:282
read_record_2(buf, name, country) ==
    IF ~country.ok THEN country
    ELSE read_record_3(buf, name, country, read_lp_str_cur(buf, country.val[2]))

\* main.rs:281
read_record_1(buf, name) ==
    IF ~name.ok THEN name
    ELSE read_record_2(buf, name, read_lp_str_cur(buf, name.val[2]))

\* main.rs:271-298: the record decoded from buf = &rec_blob[off..]
read_record_at(buf) ==
    IF Len(buf) < 17 THEN Err("failed to fill whole buffer")
    ELSE read_record_1(buf, read_lp_str_cur(buf, 17))

\* main.rs:245-255: lower bound of id in the ids of ids_bytes
RECURSIVE lower_bound(_, _, _, _)
lower_bound(ids_bytes, id, lo, hi) ==
    IF lo >= hi THEN lo
    ELSE IF u32_lt(read_u32_le_at(ids_bytes, ((lo + hi) \div 2) * 4), id)
    THEN lower_bound(ids_bytes, id, ((lo + hi) \div 2) + 1, hi)
    ELSE lower_bound(ids_bytes, id, lo, (lo + hi) \div 2)

\* main.rs:267-271: off is rec_offs[lo], rec_blob is records_slice()
read_record_off(rec_blob, off) ==
    IF ~rec_blob.ok THEN rec_blob
    ELSE IF ~U64Fits(off) \/ U64ToInt(off) >= Len(rec_blob.val)
    THEN Err("record offset out of bounds")
    ELSE read_record_at(Slice(rec_blob.val, U64ToInt(off), Len(rec_blob.val)))

\* main.rs:256-267: lo is the lower bound found
read_record_found(db, slice, n, id, lo) ==
    IF lo >= n THEN Ok(None)
    ELSE IF read_u32_le_at(slice, 4 + lo * 4) # id THEN Ok(None)
    ELSE read_record_off(records_slice(db), read_u64_le_at(slice, 4 + n * 4 + lo * 8))

\* main.rs:233-255: n is the count read.  A count above the length of the
\* table makes offs_end exceed it.
read_record_n(db, slice, n, id) ==
    IF n < 0 \/ n > Len(slice) \/ 4 + n * 4 + n * 8 > Len(slice) THEN Err("corrupt offsets")
    ELSE read_record_found(db, slice, n, id,
                           lower_bound(Slice(slice, 4, 4 + n * 4), id, 0, n))

\* main.rs:230-233: slice is offsets_slice()
read_record_in(db, slice, id) ==
    IF ~slice.ok THEN slice
    ELSE IF Len(slice.val) < 4 THEN Err("failed to fill whole buffer")
    ELSE read_record_n(db, slice.val, read_u32_le_at(slice.val, 0), id)

\* main.rs read_record_by_id: Ok(None), Ok(Some(record)) or Err
read_record_by_id(db, id) == read_record_in(db, offsets_slice(db), id)

(* ---------------- exact lookup query ---------------- *)

\* Vec::truncate under main.rs:179 / server.rs:112
\* main.rs:179-181 without the limit != 0 test
truncate_to_any_limit(ids, limit) ==
    IF Len(ids) > limit THEN SubSeq(ids, 1, limit) ELSE ids

truncate_to(ids, limit) ==
    IF limit # 0 /\ Len(ids) > limit THEN SubSeq(ids, 1, limit) ELSE ids

\* main.rs:185-196 / server.rs:118-129
candidate_of(rec) ==
    [geoname_id |-> rec.id, name |-> rec.name, country |-> rec.country,
     admin1 |-> rec.admin1, admin2 |-> rec.admin2, lat |-> rec.lat, lon |-> rec.lon,
     feature_class |-> rec.feat_class, feature_code |-> rec.feat_code,
     population |-> rec.population]

RECURSIVE load_candidates(_, _)

\* main.rs:184-197: rec is what read_record_by_id returned, rest the later ids' outcome
push_candidate(rec, rest) ==
    IF ~rec.ok THEN rec
    ELSE IF ~rest.ok THEN rest
    ELSE IF rec.val = None THEN rest
    ELSE Ok(<<candidate_of(rec.val[1])>> \o rest.val)

\* main.rs:183-198 / server.rs:116-131: Ok(candidates) or the first Err
load_candidates(db, ids) ==
    IF ids = <<>> THEN Ok(<<>>)
    ELSE push_candidate(read_record_by_id(db, Head(ids)), load_candidates(db, Tail(ids)))

\* main.rs:201-206 / server.rs:134-140
out_json(key, cs) ==
    IF ~cs.ok THEN cs
    ELSE Ok([key |-> key, count |-> Len(cs.val), candidates |-> cs.val])

\* main.rs:178-198 / server.rs:110-131: ids is what read_postings returned
lookup_ids(db, key, limit, ids) ==
    IF ~ids.ok THEN ids
    ELSE out_json(key, load_candidates(db, truncate_to(ids.val, limit)))

\* main.rs:177 / server.rs:109: off is what fst.get(&lookup_key) returned
lookup_off(db, key, limit, off) ==
    IF off = None THEN out_json(key, Ok(<<>>))
    ELSE lookup_ids(db, key, limit, read_postings(db, off[1]))

\* main.rs:173-206 / server.rs:103-140: the lookup over an opened Db and its key index
lookup(db, fst, key, limit) ==
    lookup_off(db, key, limit, fst_get(fst, lookup_key_of(key)))

\* main.rs:171: fst is what fst::Map::new(db.fst_slice()) returned
query_with_fst(db, fst, key, limit) ==
    IF ~fst.ok THEN fst ELSE lookup(db, fst.val, key, limit)

\* fst::Map::new over fst_slice()
fst_load(slice) == IF ~slice.ok THEN slice ELSE fst_new(slice.val)

\* main.rs:170-171: db is what open_db returned
query_opened(db, key, limit) ==
    IF ~db.ok THEN db
    ELSE query_with_fst(db.val, fst_load(fst_slice(db.val)), key, limit)

\* main.rs query_exact on the bytes of the file at db_path
query_exact(bytes, key, limit) == query_opened(open_db(bytes), key, limit)

(* ---------------- inputs of the model ---------------- *)

MaxRows == 2
MaxAlt == 1
MaxLimit == 2

\* texts: "1", "200"; "a", " A"; "", "b"; "x"
IdTexts == { <<49>>, <<50, 48, 48>> }
NameTexts == { <<97>>, <<32, 65>> }
AsciiTexts == { <<>>, <<98>> }
BadText == <<120>>

\* an allCountries line of 15 columns
AllLine(id_s, name, ascii, lat_s, lon_s, pop_s) ==
    << id_s, name, ascii, <<>>, lat_s, lon_s, <<80>>, <<>>, <<>>, <<>>, <<>>, <<>>,
       <<>>, <<>>, pop_s >>

\* population "5"; two lines of population "4"; a line with no name at all
GoodLines ==
    { AllLine(i, n, a, <<49>>, <<50>>, <<53>>) :
        i \in IdTexts, n \in NameTexts, a \in AsciiTexts }
    \cup { AllLine(<<49>>, <<97>>, <<>>, <<49>>, <<50>>, <<52>>),
           AllLine(<<50, 48, 48>>, <<32, 65>>, <<97>>, <<49>>, <<50>>, <<52>>),
           AllLine(<<50, 48, 48>>, <<>>, <<32>>, <<49>>, <<50>>, <<53>>) }

\* a line cut after 14 columns; lines whose id, lat, lon or population is no number
BadLines ==
    { SubSeq(AllLine(<<49>>, <<97>>, <<>>, <<49>>, <<50>>, <<53>>), 1, 14),
      AllLine(BadText, <<97>>, <<>>, <<49>>, <<50>>, <<53>>),
      AllLine(<<49>>, <<97>>, <<>>, BadText, <<50>>, <<53>>),
      AllLine(<<49>>, <<97>>, <<>>, <<49>>, BadText, <<53>>),
      AllLine(<<49>>, <<97>>, <<>>, <<49>>, <<50>>, BadText) }

AllLines == GoodLines \cup BadLines

\* alternateNamesV2 lines: geoname_id "1", "200"; alt_name "A ", "b"; a line
\* whose geoname_id is no number, one whose name is blank, one of 3 columns
AltLines ==
    { << <<55>>, g, <<>>, n >> : g \in IdTexts, n \in { <<65, 32>>, <<98>> } }
    \cup { << <<55>>, BadText, <<>>, <<98>> >>,
           << <<55>>, <<49>>, <<>>, <<32>> >>,
           << <<55>>, <<49>>, <<>> >> }

MinPops == {0, 5}

\* query keys: "", " ", "a", " A ", "b"
QueryKeys == { <<>>, <<32>>, <<97>>, <<32, 65, 32>>, <<98>> }

MaxTail == 2

RECURSIVE Zeros(_)
Zeros(n) == IF n = 0 THEN <<>> ELSE <<0>> \o Zeros(n - 1)

U64Max == <<255, 255, 255, 255, 255, 255, 255, 255>>

\* files that no build wrote: a header of any magic, version and section
\* lengths, then n zero bytes; and two files cut inside the header
OtherFiles ==
    { mg \o write_u32_le(v) \o l1 \o l2 \o l3 \o l4 \o Zeros(n) :
        mg \in { MAGIC, <<71, 69, 79, 68, 66, 50, 0>> },
        v \in { VERSION, 1 },
        l1 \in { U64(0), U64(1), U64Max },
        l2 \in { U64(0) },
        l3 \in { U64(0), U64(1) },
        l4 \in { U64(0), U64(1), U64(2) },
        n \in 0..MaxTail }
    \cup { SubSeq(MAGIC, 1, 5), MAGIC \o <<2, 0>> }

MaxTasks == 2

TestRecord(id, name) ==
    [id |-> id, name |-> name, ascii_name |-> <<>>, country |-> <<>>, admin1 |-> <<>>,
     admin2 |-> <<>>, lat |-> 1, lon |-> 2, feat_class |-> 80, feat_code |-> <<>>,
     population |-> 5]

TestRecords == << TestRecord(1, <<97>>), TestRecord(200, <<32, 65>>) >>

\* "a" -> [1, 200], "b" -> [1]
TestMap == (<<97>> :> <<1, 200>>) @@ (<<98>> :> <<1>>)

\* the file write_db writes for TestMap and TestRecords
SoundFile == write_db(TestMap, TestRecords).val

\* the same file with the index value of "a" pointing beyond the postings blob
CorruptPostingFile ==
    write_file(fst_build(<< << <<97>>, 60 >>, << <<98>>, Len(posting_entry(<<1, 200>>)) >> >>),
               postings_blob_of(<< <<97>>, <<98>> >>, TestMap),
               records_blob_of(TestRecords), offsets_blob_of(TestRecords)).val

\* the same file with the offset of record 200 pointing beyond the records blob
CorruptRecordFile ==
    write_file(fst_build(fst_pairs_of(<< <<97>>, <<98>> >>, TestMap, 0)),
               postings_blob_of(<< <<97>>, <<98>> >>, TestMap),
               records_blob_of(TestRecords),
               write_u32_le(2) \o u32s_le(<<1, 200>>) \o u64s_le(<<0, 9999>>)).val

ServedFiles == { SoundFile, CorruptPostingFile, CorruptRecordFile }

\* what may lie at out_db before a build: a database, or a file of three bytes
OldFiles == { SoundFile, <<1, 2, 3>> }

MaxIds == 3

\* u32 values: 0, 1, the ends of the 1-, 2-, 3- and 4-byte varint ranges,
\* 2^31 - 1, 2^31, 2^32 - 2, 2^32 - 1
U32Values ==
    { 0, 1, 127, 128, 16383, 16384, 2097151, 2097152, 268435455, 268435456,
      2147483647, -2147483647 - 1, -2, -1 }

RECURSIVE AscendingFrom(_, _)
\* the strictly ascending lists of at most n of U32Values, all above lo
AscendingFrom(lo, n) ==
    IF n = 0 THEN { <<>> }
    ELSE { <<>> } \cup UNION { { <<v>> \o rest : rest \in AscendingFrom(<<v>>, n - 1) } :
                                v \in { w \in U32Values : lo = <<>> \/ u32_lt(lo[1], w) } }

AscendingLists == AscendingFrom(<<>>, MaxIds) \ { <<>> }

(* ---------------- the program ---------------- *)

VARIABLES
    pc,            \* "idle", "parse_all", "merge_alt", "built", "failed", "placed",
                   \* "serving", "serve_failed"
    min_pop,       \* the --min-pop of the build
    all_input,     \* the allCountries lines read so far
    alt_input,     \* the alternateNamesV2 lines read so far
    records,       \* build_db: records
    key_to_ids,    \* build_db: key_to_ids
    build_result,  \* None, or Some(what build_db returned)
    disk,          \* None, or Some(the bytes of the file at out_db)
    app,           \* None, or Some(AppState) of the running server
    last,          \* None, or Some(the query answered and its outcome); the
                   \* model follows one query per run
    tasks,         \* the query tasks of the server: for each, its position in
                   \* server.rs query and its locals
    codec          \* a posting list or a value on its way through the codec

vars == << pc, min_pop, all_input, alt_input, records, key_to_ids, build_result,
           disk, app, last, tasks, codec >>

\* nothing has been given to the codec
IdleCodec == [at |-> "idle", xs |-> <<>>, bytes |-> <<>>, out |-> <<>>]

\* a query task that no request has reached
IdleTask ==
    [at |-> "idle", key |-> <<>>, limit |-> 0, off |-> 0, ids |-> <<>>,
     candidates |-> <<>>, out |-> None]

Init ==
    /\ pc = "idle"
    /\ min_pop = 0
    /\ all_input = <<>>
    /\ alt_input = <<>>
    /\ records = <<>>
    /\ key_to_ids = EmptyMap
    /\ build_result = None
    /\ disk = None
    /\ app = None
    /\ last = None
    /\ tasks = [t \in 1..MaxTasks |-> IdleTask]
    /\ codec = IdleCodec

\* build.rs:142-147
id_present_of(recs) == { recs[i].id : i \in 1..Len(recs) }

\* build_db is called; with_zip_member opens allCountries.txt
\* build.rs:125-137 with the output file created (and so emptied) at the start
StartBuild_creates(mp) ==
    /\ pc = "idle"
    /\ pc' = "parse_all"
    /\ min_pop' = mp
    /\ disk' = Some(<<>>)
    /\ UNCHANGED << all_input, alt_input, records, key_to_ids, build_result, app, last, tasks, codec >>

StartBuild(mp) ==
    /\ pc = "idle"
    /\ pc' = "parse_all"
    /\ min_pop' = mp
    /\ UNCHANGED << all_input, alt_input, records, key_to_ids, build_result, disk, app, last, tasks, codec >>

\* build.rs:112-119 for the primary archive: it cannot be opened or has no member
AllArchiveFails ==
    /\ pc = "idle"
    /\ pc' = "failed"
    /\ build_result' = Some(Err("open zip: allCountries"))
    /\ UNCHANGED << min_pop, all_input, alt_input, records, key_to_ids, disk, app, last, tasks, codec >>

\* build.rs:217 r.read_line(&mut line)?: the member cannot be read further
AllReadFails ==
    /\ pc = "parse_all"
    /\ pc' = "failed"
    /\ build_result' = Some(Err("read allCountries"))
    /\ UNCHANGED << min_pop, all_input, alt_input, records, key_to_ids, disk, app, last, tasks, codec >>

\* build.rs:237-243 filter_map(.. .ok()), then out.extend
extend_ok(out, r) == IF r.ok THEN Append(out, r.val) ELSE out

\* parse_allcountries_chunked_reader: one more line is read and parsed
ReadAllLine(line) ==
    /\ pc = "parse_all"
    /\ Len(all_input) < MaxRows
    /\ all_input' = Append(all_input, line)
    /\ records' = extend_ok(records, parse_allcountries_line(line, min_pop))
    /\ UNCHANGED << pc, min_pop, alt_input, key_to_ids, build_result, disk, app, last, tasks, codec >>

\* build.rs:134-168 without the records.is_empty() test of build.rs:138-140
EndAll_unchecked ==
    /\ pc = "parse_all"
    /\ pc' = "merge_alt"
    /\ key_to_ids' = seed_names(EmptyMap, records)
    /\ UNCHANGED << min_pop, all_input, alt_input, records, build_result, disk, app, last, tasks, codec >>

\* build.rs:138-168: end of allCountries; no record fails the build, otherwise
\* the keys are seeded and alternateNamesV2.txt is opened
EndAll ==
    /\ pc = "parse_all"
    /\ IF records = <<>>
       THEN /\ pc' = "failed"
            /\ build_result' = Some(Err("no records parsed from allCountries (min_pop too high?)"))
            /\ UNCHANGED key_to_ids
       ELSE /\ pc' = "merge_alt"
            /\ key_to_ids' = seed_names(EmptyMap, records)
            /\ UNCHANGED build_result
    /\ UNCHANGED << min_pop, all_input, alt_input, records, disk, app, last, tasks, codec >>

\* build.rs:171-173: the alternate-names archive cannot be opened or read
AltArchiveFails ==
    /\ pc = "merge_alt"
    /\ pc' = "failed"
    /\ build_result' = Some(Err("open zip: alternateNamesV2"))
    /\ UNCHANGED << min_pop, all_input, alt_input, records, key_to_ids, disk, app, last, tasks, codec >>

\* build.rs:345-353 filter_map(.. .ok().flatten()), then the push of each pair
push_pair(m, p) == IF p = None THEN m ELSE push_id(m, p[1][1], p[1][2])

\* merge_altnames_chunked_reader: one more line is read, parsed and merged
ReadAltLine(line) ==
    /\ pc = "merge_alt"
    /\ Len(alt_input) < MaxAlt
    /\ alt_input' = Append(alt_input, line)
    /\ key_to_ids' = push_pair(key_to_ids, parse_alt_pair(line, id_present_of(records)))
    /\ UNCHANGED << pc, min_pop, all_input, records, build_result, disk, app, last, tasks, codec >>

\* build.rs:179-186
sort_dedup_all(m) == [k \in DOMAIN m |-> sort_dedup(m[k])]

\* build.rs:199-200: w is what write_db returned
Written(w) ==
    IF w.ok
    THEN /\ pc' = "built"
         /\ disk' = Some(w.val)
         /\ build_result' = Some(Ok(<<>>))
    ELSE /\ pc' = "failed"
         /\ build_result' = Some(w)
         /\ UNCHANGED disk

\* build.rs:175-200: end of alternateNamesV2; sort + dedup, then write_db
FinishBuild ==
    /\ pc = "merge_alt"
    /\ key_to_ids' = sort_dedup_all(key_to_ids)
    /\ Written(write_db(sort_dedup_all(key_to_ids), records))
    /\ UNCHANGED << min_pop, all_input, alt_input, records, app, last, tasks, codec >>

\* before build_db is called a file already lies at out_db
OldDatabase(bytes) ==
    /\ pc = "idle"
    /\ disk = None
    /\ disk' = Some(bytes)
    /\ UNCHANGED << pc, min_pop, all_input, alt_input, records, key_to_ids, build_result,
                    app, last, tasks, codec >>

\* no build runs; the file at the --db path is one that no build wrote
PlaceFile(bytes) ==
    /\ pc = "idle"
    /\ pc' = "placed"
    /\ disk' = Some(bytes)
    /\ UNCHANGED << min_pop, all_input, alt_input, records, key_to_ids, build_result,
                    app, last, tasks, codec >>

\* main.rs:81-85: geodb query --db out_db --key key --limit limit
Query(key, limit) ==
    /\ pc \in {"built", "placed"}
    /\ last = None
    /\ \E db \in open_db_outcomes(disk[1]) :
         last' = Some([via |-> "cli", key |-> key, limit_opt |-> Some(limit),
                       limit |-> limit, out |-> query_opened(db, key, limit)])
    /\ UNCHANGED << pc, min_pop, all_input, alt_input, records, key_to_ids,
                    build_result, disk, app, tasks, codec >>

\* server.rs:78-83: fst_map is what fst::Map::new returned
Loaded(db, fst_map) ==
    IF fst_map.ok
    THEN /\ pc' = "serving"
         /\ app' = Some([db |-> db, fst |-> fst_map.val])
    ELSE /\ pc' = "serve_failed"
         /\ UNCHANGED app

\* server.rs:77-78: db is what open_db returned
Opened(db) ==
    IF db.ok
    THEN Loaded(db.val, fst_load(fst_slice(db.val)))
    ELSE /\ pc' = "serve_failed"
         /\ UNCHANGED app

\* server.rs serve: the database is opened once and the key index loaded
Serve ==
    /\ pc \in {"built", "placed"}
    /\ last = None
    /\ \E db \in open_db_outcomes(disk[1]) : Opened(db)
    /\ UNCHANGED << min_pop, all_input, alt_input, records, key_to_ids,
                    build_result, disk, last, tasks, codec >>

\* server.rs:104 q.limit.unwrap_or(0)
unwrap_or_0_opt(o) == IF o = None THEN 0 ELSE o[1]

\* server.rs query: GET /query?key=..&limit=..; limit_opt is None or Some(limit)
HttpQuery(key, limit_opt) ==
    /\ pc = "serving"
    /\ last = None
    /\ last' = Some([via |-> "http", key |-> key, limit_opt |-> limit_opt,
                     limit |-> unwrap_or_0_opt(limit_opt),
                     out |-> lookup(app[1].db, app[1].fst, key,
                                    unwrap_or_0_opt(limit_opt))])
    /\ UNCHANGED << pc, min_pop, all_input, alt_input, records, key_to_ids,
                    build_result, disk, app, tasks, codec >>

(* ---------------- the query tasks of the server ---------------- *)

\* what a step of task t leaves alone
OnlyTask(t, q) ==
    /\ tasks' = [tasks EXCEPT ![t] = q]
    /\ UNCHANGED << pc, min_pop, all_input, alt_input, records, key_to_ids,
                    build_result, disk, app, last, codec >>

\* server.rs:99-107: a request reaches task t; limit_opt is None or Some(limit)
Receive(t, key, limit_opt) ==
    /\ pc = "serving"
    /\ tasks[t].at = "idle"
    /\ OnlyTask(t, [tasks[t] EXCEPT !.at = "get", !.key = key,
                                     !.limit = unwrap_or_0_opt(limit_opt)])

\* server.rs:109: off is what state.fst.get(&lookup_key) returned
task_after_get(q, off) ==
    IF off = None THEN [q EXCEPT !.at = "respond"]
    ELSE [q EXCEPT !.at = "postings", !.off = off[1]]

\* server.rs:109 with the key of the first task in place of the task's own
FstGet_first_key(t) ==
    /\ pc = "serving"
    /\ tasks[t].at = "get"
    /\ OnlyTask(t, task_after_get(tasks[t], fst_get(app[1].fst, lookup_key_of(tasks[1].key))))

\* server.rs:103, 109: task t looks its key up in the shared key index
FstGet(t) ==
    /\ pc = "serving"
    /\ tasks[t].at = "get"
    /\ OnlyTask(t, task_after_get(tasks[t], fst_get(app[1].fst, lookup_key_of(tasks[t].key))))

\* server.rs:110-114: ids is what read_postings returned; an Err is the response
task_after_postings(q, ids) ==
    IF ~ids.ok THEN [q EXCEPT !.at = "done", !.out = Some(ids)]
    ELSE [q EXCEPT !.at = "records", !.ids = truncate_to(ids.val, q.limit)]

\* server.rs:110-114: task t reads its posting list from the shared Db
ReadPostings(t) ==
    /\ pc = "serving"
    /\ tasks[t].at = "postings"
    /\ OnlyTask(t, task_after_postings(tasks[t], read_postings(app[1].db, tasks[t].off)))

\* server.rs:116-131: rec is what read_record_by_id returned for the next id
task_after_record(q, rec) ==
    IF ~rec.ok THEN [q EXCEPT !.at = "done", !.out = Some(rec)]
    ELSE IF rec.val = None THEN [q EXCEPT !.ids = Tail(q.ids)]
    ELSE [q EXCEPT !.ids = Tail(q.ids),
                   !.candidates = Append(q.candidates, candidate_of(rec.val[1]))]

\* server.rs:116-131: task t loads the record of its next id from the shared Db
ReadRecord(t) ==
    /\ pc = "serving"
    /\ tasks[t].at = "records"
    /\ tasks[t].ids # <<>>
    /\ OnlyTask(t, task_after_record(tasks[t], read_record_by_id(app[1].db, Head(tasks[t].ids))))

\* server.rs:134-140: task t answers
Respond(t) ==
    /\ pc = "serving"
    /\ \/ tasks[t].at = "respond"
       \/ tasks[t].at = "records" /\ tasks[t].ids = <<>>
    /\ OnlyTask(t, [tasks[t] EXCEPT !.at = "done",
                       !.out = Some(out_json(tasks[t].key, Ok(tasks[t].candidates)))])

(* ---------------- the codec on its own ---------------- *)

OnlyCodec(c) ==
    /\ codec' = c
    /\ UNCHANGED << pc, min_pop, all_input, alt_input, records, key_to_ids,
                    build_result, disk, app, last, tasks >>

\* build.rs:419: enc = encode_delta_varints(ids)
Encode(xs) ==
    /\ codec.at = "idle"
    /\ OnlyCodec([at |-> "encoded", xs |-> xs, bytes |-> encode_delta_varints(xs),
                  out |-> <<>>])

\* main.rs:226: decode_delta_varints over the bytes written
Decode ==
    /\ codec.at = "encoded"
    /\ OnlyCodec([codec EXCEPT !.at = "decoded", !.out = decode_delta_varints(codec.bytes)])

\* build.rs:420, 499, 512: write_var_u32(buf, v)
WriteVar(v) ==
    /\ codec.at = "idle"
    /\ OnlyCodec([at |-> "written", xs |-> <<v>>, bytes |-> write_var_u32(v), out |-> <<>>])

\* main.rs:220, 305, 326: read_var_u32 over the bytes written
ReadVar ==
    /\ codec.at = "written"
    /\ OnlyCodec([codec EXCEPT !.at = "read", !.out = read_var_u32(codec.bytes)])

Next ==
    \/ \E mp \in MinPops : StartBuild(mp)
    \/ AllArchiveFails
    \/ \E line \in AllLines : ReadAllLine(line)
    \/ EndAll
    \/ AltArchiveFails
    \/ \E line \in AltLines : ReadAltLine(line)
    \/ FinishBuild
    \/ \E bytes \in OtherFiles : PlaceFile(bytes)
    \/ \E key \in QueryKeys, limit \in 0..MaxLimit : Query(key, limit)
    \/ Serve
    \/ \E key \in QueryKeys, limit_opt \in {None} \cup {Some(l) : l \in 1..MaxLimit} :
           HttpQuery(key, limit_opt)

Spec == Init /\ [][Next]_vars

\* the server over one of ServedFiles, its query tasks interleaved step by step
NextServe ==
    \/ \E bytes \in ServedFiles : PlaceFile(bytes)
    \/ Serve
    \/ \E t \in 1..MaxTasks, key \in QueryKeys,
          limit_opt \in {None} \cup {Some(l) : l \in 1..MaxLimit} :
           Receive(t, key, limit_opt)
    \/ \E t \in 1..MaxTasks : FstGet(t)
    \/ \E t \in 1..MaxTasks : ReadPostings(t)
    \/ \E t \in 1..MaxTasks : ReadRecord(t)
    \/ \E t \in 1..MaxTasks : Respond(t)

SpecServe == Init /\ [][NextServe]_vars

\* build_db with or without a file at out_db beforehand, read errors included
NextBuild ==
    \/ \E bytes \in OldFiles : OldDatabase(bytes)
    \/ \E mp \in MinPops : StartBuild(mp)
    \/ AllArchiveFails
    \/ AllReadFails
    \/ \E line \in AllLines : ReadAllLine(line)
    \/ EndAll
    \/ AltArchiveFails
    \/ \E line \in AltLines : ReadAltLine(line)
    \/ FinishBuild

SpecBuild == Init /\ [][NextBuild]_vars

\* the codec applied to the lists of AscendingLists and the values of U32Values
NextCodec ==
    \/ \E xs \in AscendingLists : Encode(xs)
    \/ Decode
    \/ \E v \in U32Values : WriteVar(v)
    \/ ReadVar

SpecCodec == Init /\ [][NextCodec]_vars


(* ---------------- what a state holds, for the properties ---------------- *)

\* build_db returned Ok: the file on disk is the one write_db wrote
BuiltOk == build_result = Some(Ok(<<>>))

\* the state build_db returns in, before any query or serve
JustBuilt == pc = "built" /\ last = None

\* the admission rule of the specification applied to one allCountries line
LinePopulation(line) ==
    IF parse_u32(line[15]).ok THEN parse_u32(line[15]).val ELSE 0

SpecAdmitted(line) ==
    /\ Len(line) >= 15
    /\ parse_u32(line[1]).ok
    /\ parse_f32_ok(line[5])
    /\ parse_f32_ok(line[6])
    /\ LinePopulation(line) >= min_pop

AdmittedLines == { i \in 1..Len(all_input) : SpecAdmitted(all_input[i]) }

LineId(line) == parse_u32(line[1]).val

AdmittedIds == { LineId(all_input[i]) : i \in AdmittedLines }

\* norm of the specification: trim, lowercase; a text that trims to nothing has no key
SameNorm(s, k) == norm_key(s) # None /\ norm_key(s) = norm_key(k)

\* ids of admitted rows whose name or ascii_name normalizes to norm(k)
GroundPrimary(k) ==
    { LineId(all_input[i]) : i \in { j \in AdmittedLines :
        SameNorm(all_input[j][2], k) \/ SameNorm(all_input[j][3], k) } }

\* ids of admitted rows that an alternate-name row names under norm(k)
GroundAlt(k) ==
    { parse_u32(alt_input[i][2]).val : i \in { j \in 1..Len(alt_input) :
        /\ Len(alt_input[j]) >= 4
        /\ parse_u32(alt_input[j][2]).ok
        /\ parse_u32(alt_input[j][2]).val \in AdmittedIds
        /\ SameNorm(alt_input[j][4], k) } }

GroundTruth(k) == GroundPrimary(k) \cup GroundAlt(k)

\* the file on disk as open_db, Map::new and read_postings read it
TheDb == open_db(disk[1]).val

FstPairs == fst_new(fst_slice(TheDb).val).val

PostingList(i) == read_postings(TheDb, FstPairs[i][2]).val

AllPostingIds == UNION { Range(PostingList(i)) : i \in 1..Len(FstPairs) }

\* the ids of the offsets table, in table order
OffsetCount == read_u32_le_at(offsets_slice(TheDb).val, 0)

OffsetIds == [i \in 1..OffsetCount |-> read_u32_le_at(offsets_slice(TheDb).val, 4 * i)]

\* the records of the records blob, in blob order
RecordEnd(buf) ==
    read_lp_str_cur(buf, read_lp_str_cur(buf, read_lp_str_cur(buf, read_lp_str_cur(buf,
        read_lp_str_cur(buf, 17).val[2]).val[2]).val[2]).val[2]).val[2]

RECURSIVE BlobRecordsOf(_)
BlobRecordsOf(buf) ==
    IF buf = <<>> THEN <<>>
    ELSE <<read_record_at(buf).val[1]>> \o BlobRecordsOf(Slice(buf, RecordEnd(buf), Len(buf)))

BlobRecords == BlobRecordsOf(records_slice(TheDb).val)

Count(seq, x) == Cardinality({ i \in 1..Len(seq) : seq[i] = x })

\* the ids of the candidates a query returned, in output order
CandidateIds(out) == [i \in 1..Len(out.val.candidates) |-> out.val.candidates[i].geoname_id]

StrictlyAscending(ids) == \A i \in 1..(Len(ids) - 1) : u32_lt(ids[i], ids[i + 1])

(* ---------------- C1 ---------------- *)

C2_NoFilteredRecord ==
    JustBuilt =>
        /\ \A i \in 1..Len(BlobRecords) :
             /\ BlobRecords[i].population >= min_pop
             /\ \E j \in AdmittedLines :
                  /\ LineId(all_input[j]) = BlobRecords[i].id
                  /\ LinePopulation(all_input[j]) = BlobRecords[i].population
        /\ Range(OffsetIds) \subseteq AdmittedIds
        /\ AllPostingIds \subseteq AdmittedIds

\* a build with min_pop 5 that read a row of population 4 whose id no admitted
\* row has, and an alternate-name row naming that id
C2_Witness ==
    /\ JustBuilt
    /\ \E j \in 1..Len(all_input) :
         /\ Len(all_input[j]) >= 15
         /\ parse_u32(all_input[j][1]).ok
         /\ LinePopulation(all_input[j]) < min_pop
         /\ LineId(all_input[j]) \notin AdmittedIds
         /\ \E a \in 1..Len(alt_input) :
              /\ Len(alt_input[a]) >= 4
              /\ parse_u32(alt_input[a][2]).ok
              /\ parse_u32(alt_input[a][2]).val = LineId(all_input[j])
              /\ norm_key(alt_input[a][4]) # None

(* ---------------- C3 ---------------- *)

\* C3: after a successful build every key of the index has a posting list
\* that, decoded by read_postings, is non-empty and strictly ascending (so
\* without duplicates), and is the list write_db was given for that key.
C3_PostingsSorted ==
    JustBuilt =>
        /\ Len(FstPairs) = Cardinality(DOMAIN key_to_ids)
        /\ \A i \in 1..Len(FstPairs) :
             /\ read_postings(TheDb, FstPairs[i][2]).ok
             /\ PostingList(i) # <<>>
             /\ StrictlyAscending(PostingList(i))
             /\ FstPairs[i][1] \in DOMAIN key_to_ids
             /\ PostingList(i) = key_to_ids[FstPairs[i][1]]

\* a build where id 200 was pushed before id 1 under key "a", and id 200 twice
\* over (name, alternate name)
C3_Witness ==
    /\ JustBuilt
    /\ all_input = << AllLine(<<50, 48, 48>>, <<97>>, <<98>>, <<49>>, <<50>>, <<53>>),
                      AllLine(<<49>>, <<32, 65>>, <<>>, <<49>>, <<50>>, <<53>>) >>
    /\ alt_input = << << <<55>>, <<50, 48, 48>>, <<>>, <<65, 32>> >> >>
    /\ key_to_ids[<<97>>] = <<1, 200>>

(* ---------------- C4 ---------------- *)

\* C4 as the specification states it: after a successful build every id of
\* any posting list appears exactly once in the records blob and exactly once
\* in the offsets table.
C4_IdsExactlyOnce ==
    JustBuilt =>
        \A id \in AllPostingIds :
            /\ Cardinality({ i \in 1..Len(BlobRecords) : BlobRecords[i].id = id }) = 1
            /\ Count(OffsetIds, id) = 1

(* ---------------- C5 ---------------- *)

\* the header is whole and carries the magic and the version
HeaderOk(bytes) ==
    /\ Len(bytes) >= HEADER_LEN
    /\ SubSeq(bytes, 1, 7) = MAGIC
    /\ read_u32_le_at(bytes, 7) = VERSION

\* a + b as numbers is a + b modulo 2^64
NoWrap(a, b) == ~U64Gt(a, U64Add(a, b))

\* 43 + fst_len + postings_len + records_len + offsets_len = total, as numbers
SectionsEndAt(l1, l2, l3, l4, total) ==
    /\ NoWrap(U64(HEADER_LEN), l1)
    /\ NoWrap(U64Add(U64(HEADER_LEN), l1), l2)
    /\ NoWrap(U64Add(U64Add(U64(HEADER_LEN), l1), l2), l3)
    /\ NoWrap(U64Add(U64Add(U64Add(U64(HEADER_LEN), l1), l2), l3), l4)
    /\ U64Add(U64Add(U64Add(U64Add(U64(HEADER_LEN), l1), l2), l3), l4) = U64(total)

LengthsMatch(bytes) ==
    SectionsEndAt(read_u64_le_at(bytes, 11), read_u64_le_at(bytes, 19),
                  read_u64_le_at(bytes, 27), read_u64_le_at(bytes, 35), Len(bytes))

\* C5 as the specification states it: a query on a file whose header has the
\* magic and the version but whose section lengths do not end exactly at the
\* end of the file fails with the corrupt-lengths error of open_db.
C5_LengthsMustMatch ==
    (disk # None /\ last # None /\ last[1].via = "cli"
       /\ HeaderOk(disk[1]) /\ ~LengthsMatch(disk[1])) =>
        last[1].out = Err("corrupt file lengths")

(* ---------------- C6 ---------------- *)

BadMagic(bytes) == Len(bytes) < 7 \/ SubSeq(bytes, 1, 7) # MAGIC

BadVersion(bytes) == Len(bytes) < 11 \/ read_u32_le_at(bytes, 7) # VERSION

\* C6: open_db returns an error and no Db for every file whose first 7 bytes
\* are not the magic or whose version field is not 2 (a query on it fails, a
\* server on it never starts); every file a successful build wrote has the
\* magic, version 2 and section lengths ending at the end of the file, and
\* open_db opens it.
C6_MagicAndVersion ==
    /\ (disk # None /\ (BadMagic(disk[1]) \/ BadVersion(disk[1]))) =>
          /\ ~open_db(disk[1]).ok
          /\ app = None /\ pc # "serving"
          /\ last # None =>
               /\ ~last[1].out.ok
               /\ last[1].out.err \in { "bad magic", "unsupported version",
                                        "failed to fill whole buffer" }
    /\ BuiltOk =>
          /\ HeaderOk(disk[1])
          /\ LengthsMatch(disk[1])
          /\ open_db(disk[1]).ok
          /\ pc # "serve_failed"

\* a query on a file that has the magic and version 1
C6_Witness ==
    /\ pc = "placed" /\ last # None
    /\ Len(disk[1]) >= HEADER_LEN
    /\ ~BadMagic(disk[1])
    /\ read_u32_le_at(disk[1], 7) = 1
    /\ last[1].out = Err("unsupported version")

(* ---------------- C7 ---------------- *)

\* the posting list the build stored for the normalized key; empty when the
\* key is not in the index
StoredPosting(k) ==
    IF lookup_key_of(k) \in DOMAIN key_to_ids THEN key_to_ids[lookup_key_of(k)] ELSE <<>>

\* the limit a request asks for: a missing limit parameter asks for 0
AskedLimit(q) == IF q.limit_opt = None THEN 0 ELSE q.limit_opt[1]

LimitedTo(ids, limit) ==
    IF limit = 0 \/ limit >= Len(ids) THEN ids ELSE SubSeq(ids, 1, limit)

\* C7: a query on a built database, by the CLI or by the HTTP handler,
\* returns the candidates of the whole posting list of its key when the limit
\* is 0 (or missing, over HTTP) or at least the length of the list, and
\* otherwise those of its first limit ids; the candidates come in ascending
\* order of id and count is their number.
C7_Limit ==
    (BuiltOk /\ last # None) =>
        /\ last[1].out.ok
        /\ CandidateIds(last[1].out) = LimitedTo(StoredPosting(last[1].key), AskedLimit(last[1]))
        /\ StrictlyAscending(CandidateIds(last[1].out))
        /\ last[1].out.val.count = Len(last[1].out.val.candidates)

\* an HTTP query with limit 1 on a key whose posting list has two ids
C7_Witness ==
    /\ BuiltOk /\ last # None /\ last[1].via = "http"
    /\ last[1].limit_opt = Some(1)
    /\ Len(StoredPosting(last[1].key)) = 2
    /\ CandidateIds(last[1].out) = <<StoredPosting(last[1].key)[1]>>

(* ---------------- C8 ---------------- *)

\* the posting list the file holds under key k, as a set; empty when k is no key
FilePosting(k) == UNION { Range(PostingList(i)) : i \in { j \in 1..Len(FstPairs) : FstPairs[j][1] = k } }

C9_EmptyOrAbsentKey ==
    /\ <<>> \notin DOMAIN key_to_ids
    /\ JustBuilt => \A i \in 1..Len(FstPairs) : FstPairs[i][1] # <<>>
    /\ (BuiltOk /\ last # None
          /\ (lookup_key_of(last[1].key) = <<>>
                \/ lookup_key_of(last[1].key) \notin DOMAIN key_to_ids)) =>
         last[1].out = Ok([key |-> last[1].key, count |-> 0, candidates |-> <<>>])

\* a blank query on a database built from an admitted row whose name is empty
\* and whose ascii name is blank
C9_Witness ==
    /\ BuiltOk /\ last # None
    /\ last[1].key = <<32>>
    /\ \E j \in AdmittedLines : all_input[j][2] = <<>> /\ all_input[j][3] = <<32>>
    /\ last[1].out.ok /\ last[1].out.val.count = 0

(* ---------------- C10 ---------------- *)

EmptyAfterFilter == Err("no records parsed from allCountries (min_pop too high?)")

\* C10: build_db fails with the no-records error exactly when the
\* allCountries member was read to its end and no row of it was admitted:
\* the build goes on to the alternate names, and succeeds, only with an
\* admitted row, and a build that failed with no admitted row failed with
\* that error unless the archive itself could not be read.
C10_EmptyAfterFilter ==
    /\ build_result = Some(EmptyAfterFilter) => (pc = "failed" /\ AdmittedLines = {})
    /\ (pc = "merge_alt" \/ BuiltOk) => AdmittedLines # {}
    /\ (pc = "failed" /\ AdmittedLines = {}
          /\ build_result # Some(Err("open zip: allCountries"))) =>
         build_result = Some(EmptyAfterFilter)
    /\ (pc = "failed" /\ AdmittedLines # {}) =>
         build_result = Some(Err("open zip: alternateNamesV2"))

\* a build with min_pop 5 that read a row of 14 columns and a row of
\* population 4 and failed with the no-records error
C10_Witness ==
    /\ pc = "failed" /\ build_result = Some(EmptyAfterFilter)
    /\ \E i \in 1..Len(all_input) : Len(all_input[i]) < 15
    /\ \E i \in 1..Len(all_input) :
         /\ Len(all_input[i]) >= 15
         /\ parse_u32(all_input[i][1]).ok
         /\ LinePopulation(all_input[i]) < min_pop

(* ---------------- C11 ---------------- *)

\* the key index of CorruptPostingFile and the offsets table of
\* CorruptRecordFile are corrupt for key "a" only
CorruptServed == disk # None /\ disk[1] \in { CorruptPostingFile, CorruptRecordFile }

\* C11: while the server runs, its AppState stays the Db and the key index
\* that serve loaded from the file at startup, whatever the tasks do; every
\* task that has answered, however its steps were interleaved with those of
\* the other tasks, answered what the lookup of its key and limit returns when
\* run alone on that AppState; so on a file whose key "a" is corrupt a task
\* asking for another key answers Ok whether or not another task has failed.
C11_TasksIndependent ==
    pc = "serving" =>
        /\ app = Some([db |-> open_db(disk[1]).val,
                       fst |-> fst_new(fst_slice(open_db(disk[1]).val).val).val])
        /\ \A t \in 1..MaxTasks :
             tasks[t].at = "done" =>
                 /\ tasks[t].out = Some(lookup(app[1].db, app[1].fst, tasks[t].key, tasks[t].limit))
                 /\ (CorruptServed /\ lookup_key_of(tasks[t].key) # <<97>>) => tasks[t].out[1].ok

\* on a corrupt file the first task has failed on "a" and the second one
\* has returned the candidate of "b"
C11_Witness ==
    /\ pc = "serving" /\ CorruptServed
    /\ tasks[1].at = "done" /\ ~tasks[1].out[1].ok
    /\ tasks[2].at = "done" /\ tasks[2].key = <<98>>
    /\ tasks[2].out[1].ok /\ tasks[2].out[1].val.count = 1

(* ---------------- C12 ---------------- *)

\* C12: a non-empty strictly ascending list of u32 ids that was encoded by
\* encode_delta_varints and decoded by decode_delta_varints comes back as it
\* was, and a value written by write_var_u32 is read back by read_var_u32 as
\* that value together with the number of bytes written, which is at most 5.
C12_CodecRoundTrip ==
    /\ codec.at = "decoded" => codec.out = codec.xs
    /\ codec.at = "read" =>
         /\ codec.out = Ok(<<codec.xs[1], Len(codec.bytes)>>)
         /\ Len(codec.bytes) <= 5

\* the list 0, 2^31, 2^32 - 1 decoded: its first id is 0, its second delta
\* takes 5 bytes and its last id is the top of the u32 range
C12_Witness ==
    /\ codec.at = "decoded"
    /\ codec.xs = <<0, -2147483647 - 1, -1>>
    /\ Len(codec.bytes) = 1 + 5 + 5
    /\ codec.out = codec.xs

(* ---------------- C13 ---------------- *)

\* the lines read so far that the admission rule admits, in input order
AdmittedSeq == SelectSeq(all_input, SpecAdmitted)

\* C13: at every point of a build, records holds one record for each line
\* read so far that has at least 15 columns, an id, lat and lon that parse and
\* a population (0 when the column does not parse) of at least min_pop, in
\* input order and with that line's id, names and population, and nothing
\* else; reading a line, admitted or not, never fails the build.
C13_AdmissionRule ==
    /\ Len(records) = Len(AdmittedSeq)
    /\ \A k \in 1..Len(records) :
         /\ records[k].id = LineId(AdmittedSeq[k])
         /\ records[k].name = AdmittedSeq[k][2]
         /\ records[k].ascii_name = AdmittedSeq[k][3]
         /\ records[k].population = LinePopulation(AdmittedSeq[k])
    /\ pc = "parse_all" => build_result = None

\* with min_pop 0, a line of 14 columns was dropped and the line after it,
\* whose population is no number, was admitted with population 0
C13_Witness ==
    /\ pc = "parse_all" /\ min_pop = 0
    /\ Len(all_input) = 2
    /\ Len(all_input[1]) < 15
    /\ Len(all_input[2]) >= 15 /\ ~parse_u32(all_input[2][15]).ok
    /\ Len(records) = 1 /\ records[1].population = 0

(* ---------------- C14 ---------------- *)

\* C14: every step of build_db that does not end in the written database (a
\* step that starts the build, reads a line, seeds the keys or fails: archive
\* not opened, member not read, no record admitted, key index not built)
\* leaves the file at out_db as it was, absent or with its former bytes.
C14_OutputUntouched ==
    [][pc' \in {"parse_all", "merge_alt", "failed"} => disk' = disk]_vars

\* a build over an existing database that admitted a record and then failed
\* on the alternate-names archive, with the database still in place
C14_Witness ==
    /\ pc = "failed"
    /\ build_result = Some(Err("open zip: alternateNamesV2"))
    /\ records # <<>>
    /\ disk = Some(SoundFile)

(* ---------------- C15 ---------------- *)

\* the range [start, start + len) of a section does not wrap and lies in the file
RangeInFile(db, start, len) ==
    /\ ~U64Gt(start, U64Add(start, len))
    /\ ~U64Gt(U64Add(start, len), U64(Len(db.bytes)))

RangesInFile(db) ==
    /\ RangeInFile(db, db.fst_start, db.fst_len)
    /\ RangeInFile(db, db.postings_start, db.postings_len)
    /\ RangeInFile(db, db.records_start, db.records_len)
    /\ RangeInFile(db, db.offsets_start, db.offsets_len)

\* C15 as the specification states it: whatever file lies at the --db path,
\* every Db that open_db can return for it has its four section ranges
\* well-formed and inside the file, and a query on the file never panics on a
\* slice index.
C15_RangesInBounds ==
    disk # None =>
        /\ \A db \in open_db_outcomes(disk[1]) : db.ok => RangesInFile(db.val)
        /\ (last # None /\ last[1].via = "cli" /\ open_db(disk[1]).ok) =>
              last[1].out # Panic

====
